---- MODULE Spec2Model ----
(***************************************************************************)
(* Arabic Phon Bot (src/index.js): the transliteration pipeline            *)
(* (normalizeArabicKeepShadda, stripDiacritics, fallbackTransliterate,     *)
(* scientificToPhonetic, applyContextualRules, smartTransliterate) and the *)
(* /phon slash-command handler (ACK, response_url retries, chat.postMessage*)
(* fallback).                                                              *)
(*                                                                         *)
(* A JavaScript string is a sequence of one-character tokens.  ASCII       *)
(* characters stand for themselves ("a", "-", " ").  Every other           *)
(* character has an ASCII name:                                            *)
(*   Arabic letters   "alef" U+0627, "alef_hamza_above" U+0623,            *)
(*                    "alef_hamza_below" U+0625, "alef_madda" U+0622,      *)
(*                    "beh", "teh", "theh", "jeem", "hah", "khah", "dal",  *)
(*                    "thal", "reh", "zain", "seen", "sheen", "sad",       *)
(*                    "dad", "tah", "zah", "ain", "ghain", "feh", "qaf",   *)
(*                    "kaf", "lam", "meem", "noon", "heh", "waw", "yeh",   *)
(*                    "hamza" U+0621, "yeh_hamza" U+0626,                  *)
(*                    "waw_hamza" U+0624, "teh_marbuta" U+0629,            *)
(*                    "alef_maksura" U+0649                                *)
(*   Arabic marks     "fathatan" U+064B .. "sukun" U+0652 ("shadda" is     *)
(*                    U+0651), "superscript_alef" U+0670, "tatweel" U+0640 *)
(*   controls         "rlm" U+200F, "tab" U+0009                           *)
(*   scholarly Latin  "amac" a-macron, "imac", "umac", "hdot" h-underdot,  *)
(*                    "ddot", "sdot", "tdot", "zdot" and their capitals    *)
(*                    "AMAC", "IMAC", "UMAC", "HDOT", "DDOT", "SDOT",      *)
(*                    "TDOT", "ZDOT"; "ayn_half" U+02BF, "hamza_half"      *)
(*                    U+02BE, "rquote" U+2019, "ayn_mod" U+02C1            *)
(***************************************************************************)
EXTENDS Integers, Sequences, FiniteSets, TLC

VARIABLES
  arabicToLatin,      \* the shared letter table (index.js:94)
  sunLetters,         \* the shared sun-letter set (index.js:103)
  transliterateLib,   \* the optional external resource (index.js:68-74)
  botToken,           \* process.env.SLACK_BOT_TOKEN is set
  arabicText,         \* core invocation: the argument of smartTransliterate
  cpc,                \* core invocation: position inside smartTransliterate
  rawKeep,            \* core invocation: local rawKeep
  stripped,           \* core invocation: local stripped
  scientific,         \* core invocation: local scientific (a JS value)
  returned,           \* core invocation: the returned string
  pc,                 \* handler: position of each /phon request
  body,               \* handler: req.body of each request
  ack,                \* handler: the ACK response was sent
  urlLog,             \* handler: outcomes of the POSTs to response_url
  lastErr,            \* handler: lastErr of the retry loop is set
  chatLog,            \* handler: outcomes of the chat.postMessage POSTs
  translit            \* handler: value of smartTransliterate(text)

vars == <<arabicToLatin, sunLetters, transliterateLib, botToken, arabicText, cpc,
          rawKeep, stripped, scientific, returned, pc, body, ack, urlLog, lastErr,
          chatLog, translit>>

tableVars == <<arabicToLatin, sunLetters>>
coreVars == <<arabicText, cpc, rawKeep, stripped, scientific, returned>>
handlerVars == <<pc, body, ack, urlLog, lastErr, chatLog, translit>>

(***************************************************************************)
(* Bounds of the exploration.                                              *)
(***************************************************************************)
MaxCoreLen == 3
MaxBodyLen == 3
NumRequests == 2
MaxSciLen == 3

(***************************************************************************)
(* String primitives of JavaScript, on sequences of characters.            *)
(***************************************************************************)
Min(S) == CHOOSE x \in S : \A y \in S : x <= y
Max(S) == CHOOSE x \in S : \A y \in S : y <= x

\* \s of a JavaScript regular expression, and what trim() removes
IsWs(c) == c \in {" ", "tab"}

RECURSIVE Flatten(_)
Flatten(ss) == IF ss = <<>> THEN <<>> ELSE Head(ss) \o Flatten(Tail(ss))

\* s.replace(/\s+/g, " ")
CollapseWs(s) ==
  LET idx == [i \in 1..Len(s) |-> i]
      first(i) == ~(IsWs(s[i]) /\ i > 1 /\ IsWs(s[i - 1]))
      kept == SelectSeq(idx, first)
  IN  [k \in 1..Len(kept) |-> IF IsWs(s[kept[k]]) THEN " " ELSE s[kept[k]]]

\* s.replace(/-+/g, "-")
CollapseHyphens(s) ==
  LET idx == [i \in 1..Len(s) |-> i]
      first(i) == ~(s[i] = "-" /\ i > 1 /\ s[i - 1] = "-")
      kept == SelectSeq(idx, first)
  IN  [k \in 1..Len(kept) |-> s[kept[k]]]

\* s.trim()
Trim(s) ==
  LET nz == {i \in 1..Len(s) : ~IsWs(s[i])}
  IN  IF nz = {} THEN <<>> ELSE SubSeq(s, Min(nz), Max(nz))

\* s.split(" ")
RECURSIVE SplitSpace(_)
SplitSpace(s) ==
  LET sp == {i \in 1..Len(s) : s[i] = " "}
  IN  IF sp = {} THEN <<s>>
      ELSE <<SubSeq(s, 1, Min(sp) - 1)>> \o SplitSpace(SubSeq(s, Min(sp) + 1, Len(s)))

\* s.split(/\s+/): a run of whitespace is one separator
SplitWs(s) == SplitSpace(CollapseWs(s))

\* words.join(" ")
RECURSIVE JoinSpace(_)
JoinSpace(ws) ==
  IF ws = <<>> THEN <<>>
  ELSE IF Len(ws) = 1 THEN ws[1]
  ELSE ws[1] \o <<" ">> \o JoinSpace(Tail(ws))

LowerLetters ==
  <<"a", "b", "c", "d", "e", "f", "g", "h", "i", "j", "k", "l", "m", "n", "o", "p",
    "q", "r", "s", "t", "u", "v", "w", "x", "y", "z",
    "amac", "imac", "umac", "hdot", "ddot", "sdot", "tdot", "zdot">>
UpperLetters ==
  <<"A", "B", "C", "D", "E", "F", "G", "H", "I", "J", "K", "L", "M", "N", "O", "P",
    "Q", "R", "S", "T", "U", "V", "W", "X", "Y", "Z",
    "AMAC", "IMAC", "UMAC", "HDOT", "DDOT", "SDOT", "TDOT", "ZDOT">>

\* c.toUpperCase() and c.toLowerCase() of one character
UpperChar(c) ==
  IF \E i \in 1..Len(LowerLetters) : LowerLetters[i] = c
  THEN UpperLetters[CHOOSE i \in 1..Len(LowerLetters) : LowerLetters[i] = c]
  ELSE c
LowerChar(c) ==
  IF \E i \in 1..Len(UpperLetters) : UpperLetters[i] = c
  THEN LowerLetters[CHOOSE i \in 1..Len(UpperLetters) : UpperLetters[i] = c]
  ELSE c

\* s.toLowerCase()
toLowerCase(s) == [i \in 1..Len(s) |-> LowerChar(s[i])]

\* s.startsWith(p) and s.endsWith(p)
StartsWith(s, p) == Len(s) >= Len(p) /\ SubSeq(s, 1, Len(p)) = p
EndsWith(s, p) == Len(s) >= Len(p) /\ SubSeq(s, Len(s) - Len(p) + 1, Len(s)) = p

\* s.replace(new RegExp(m, "i"), r): the first case-insensitive occurrence of m
ReplaceFirstCI(s, m, r) ==
  LET at == {i \in 1..(Len(s) - Len(m) + 1) :
               toLowerCase(SubSeq(s, i, i + Len(m) - 1)) = toLowerCase(m)}
  IN  IF m = <<>> THEN r \o s
      ELSE IF at = {} THEN s
      ELSE SubSeq(s, 1, Min(at) - 1) \o r \o SubSeq(s, Min(at) + Len(m), Len(s))

\* whether s contains m, compared case-insensitively
ContainsCI(s, m) ==
  \E i \in 1..(Len(s) - Len(m) + 1) :
    toLowerCase(SubSeq(s, i, i + Len(m) - 1)) = toLowerCase(m)

(***************************************************************************)
(* JavaScript values that are not strings.                                 *)
(***************************************************************************)
JsStr(s) == [t |-> "string", v |-> s]
JsObject == [t |-> "object", v |-> <<>>]        \* truthy, not a string
JsUndefined == [t |-> "undefined", v |-> <<>>]  \* falsy, not a string
LibThrows == [t |-> "throw", v |-> <<>>]        \* the call raises
IsString(x) == x.t = "string"
Truthy(x) == x.t = "object" \/ (x.t = "string" /\ x.v # <<>>)

(***************************************************************************)
(* The shared lookup tables as index.js:94-103 builds them.                *)
(***************************************************************************)
TableKeys ==
  {"alef", "alef_hamza_above", "alef_hamza_below", "alef_madda", "beh", "teh",
   "theh", "jeem", "hah", "khah", "dal", "thal", "reh", "zain", "seen", "sheen",
   "sad", "dad", "tah", "zah", "ain", "ghain", "feh", "qaf", "kaf", "lam", "meem",
   "noon", "heh", "waw", "yeh", "hamza", "yeh_hamza", "waw_hamza", "teh_marbuta",
   "alef_maksura"}

ArabicToLatinTable ==
  [k \in TableKeys |->
     CASE k \in {"alef", "alef_hamza_above", "alef_hamza_below", "alef_madda"} -> <<"a">>
       [] k = "beh" -> <<"b">>       [] k = "teh" -> <<"t">>
       [] k = "theh" -> <<"t", "h">> [] k = "jeem" -> <<"j">>
       [] k = "hah" -> <<"h">>       [] k = "khah" -> <<"k", "h">>
       [] k = "dal" -> <<"d">>       [] k = "thal" -> <<"d", "h">>
       [] k = "reh" -> <<"r">>       [] k = "zain" -> <<"z">>
       [] k = "seen" -> <<"s">>      [] k = "sheen" -> <<"s", "h">>
       [] k = "sad" -> <<"s">>       [] k = "dad" -> <<"d">>
       [] k = "tah" -> <<"t">>       [] k = "zah" -> <<"z">>
       [] k = "ain" -> <<"a">>       [] k = "ghain" -> <<"g", "h">>
       [] k = "feh" -> <<"f">>       [] k = "qaf" -> <<"q">>
       [] k = "kaf" -> <<"k">>       [] k = "lam" -> <<"l">>
       [] k = "meem" -> <<"m">>      [] k = "noon" -> <<"n">>
       [] k = "heh" -> <<"h">>       [] k = "waw" -> <<"w">>
       [] k = "yeh" -> <<"y">>       [] k = "hamza" -> <<"'">>
       [] k = "yeh_hamza" -> <<"y">> [] k = "waw_hamza" -> <<"w">>
       [] k = "teh_marbuta" -> <<"a">>
       [] k = "alef_maksura" -> <<"a">>]

SunLetterSet ==
  {"teh", "theh", "dal", "thal", "reh", "zain", "seen", "sheen", "sad", "dad",
   "tah", "zah", "lam", "noon"}

\* arabicToLatin[ch]: the mapping, or the empty string where JavaScript gives
\* undefined (both are falsy wherever the code tests it)
Mapped(ch) == IF ch \in DOMAIN arabicToLatin THEN arabicToLatin[ch] ELSE <<>>

(***************************************************************************)
(* Normalizer (index.js:76-92).                                            *)
(***************************************************************************)
NotRlm(c) == c # "rlm"

\* normalizeArabicKeepShadda with the chain reordered: the right-to-left
\* marks removed last, after trim()
normalizeRlmLast(text) ==
  IF text = <<>> THEN <<>>
  ELSE SelectSeq(Trim(CollapseWs(text)), NotRlm)

normalizeArabicKeepShadda(text) ==
  IF text = <<>> THEN <<>>
  ELSE Trim(CollapseWs(SelectSeq(text, NotRlm)))

\* [ً-ْٰ]
Diacritics ==
  {"fathatan", "dammatan", "kasratan", "fatha", "damma", "kasra", "shadda", "sukun",
   "superscript_alef"}

NotDiacritic(c) == c \notin Diacritics
NotTatweel(c) == c # "tatweel"

\* the letter folds of stripDiacritics, one character at a time
FoldLetter(c) ==
  CASE c \in {"alef_hamza_below", "alef_hamza_above", "alef_madda"} -> "alef"
    [] c = "alef_maksura" -> "yeh"
    [] c = "waw_hamza" -> "waw"
    [] c = "yeh_hamza" -> "yeh"
    [] OTHER -> c

stripDiacritics(text) ==
  IF text = <<>> THEN <<>>
  ELSE LET noMarks == SelectSeq(text, NotDiacritic)
           folded == [i \in 1..Len(noMarks) |-> FoldLetter(noMarks[i])]
       IN  Trim(CollapseWs(SelectSeq(folded, NotTatweel)))

(***************************************************************************)
(* Romanizer fallback (index.js:104-116).                                  *)
(***************************************************************************)
capitalizeWord(s) == IF s = <<>> THEN s ELSE <<UpperChar(s[1])>> \o Tail(s)

CapitalizeAll(ws) == [i \in 1..Len(ws) |-> capitalizeWord(ws[i])]

fallbackTransliterate(text) ==
  IF text = <<>> THEN <<>>
  ELSE LET s == stripDiacritics(text)
           out == Flatten([i \in 1..Len(s) |->
                     IF Mapped(s[i]) # <<>> THEN Mapped(s[i])
                     ELSE IF s[i] = " " THEN <<" ">>
                     ELSE <<>>])
       IN  JoinSpace(CapitalizeAll(SplitWs(out)))

(***************************************************************************)
(* Phonetic simplifier (index.js:117-135).  The argument is a JavaScript   *)
(* value; the result says whether the call raised (replace is not a        *)
(* function of a value that is not a string).                              *)
(***************************************************************************)
\* line 120
LongVowels(c) ==
  CASE c = "amac" -> <<"a", "a">> [] c = "imac" -> <<"i", "i">>
    [] c = "umac" -> <<"u", "u">> [] OTHER -> <<c>>
\* line 121
Emphatics(c) ==
  CASE c = "hdot" -> "h" [] c = "ddot" -> "d" [] c = "sdot" -> "s"
    [] c = "tdot" -> "t" [] c = "zdot" -> "z" [] OTHER -> c
\* line 122
Stops(c) ==
  CASE c = "ayn_half" -> "a" [] c = "hamza_half" -> "'" [] c = "rquote" -> "'"
    [] c = "ayn_mod" -> "a" [] OTHER -> c
\* line 123, first replace
HyphenToSpace(c) == IF c = "-" THEN " " ELSE c

CorrectionKeys ==
  {<<"m", "h", "m", "d">>, <<"m", "u", "h", "a", "m", "m", "a", "d">>,
   <<"m", "o", "h", "a", "m", "m", "a", "d">>, <<"m", "o", "h", "a", "m", "e", "d">>,
   <<"a", "h", "m", "a", "d">>, <<"a", "l", "i">>, <<"y", "u", "s", "u", "f">>,
   <<"f", "a", "t", "i", "m", "a">>, <<"a", "b", "d">>, <<"b", "i", "n">>}

Muhammad == <<"M", "u", "h", "a", "m", "m", "a", "d">>

corrections ==
  [w \in CorrectionKeys |->
     CASE w[1] = "m" -> Muhammad
       [] w = <<"a", "h", "m", "a", "d">> -> <<"A", "h", "m", "a", "d">>
       [] w = <<"a", "l", "i">> -> <<"A", "l", "i">>
       [] w = <<"y", "u", "s", "u", "f">> -> <<"Y", "u", "s", "u", "f">>
       [] w = <<"f", "a", "t", "i", "m", "a">> -> <<"F", "a", "t", "i", "m", "a">>
       [] w = <<"a", "b", "d">> -> <<"A", "b", "d">>
       [] w = <<"b", "i", "n">> -> <<"b", "i", "n">>]

CorrectWord(w) ==
  IF w = <<>> THEN <<>>
  ELSE IF w \in CorrectionKeys THEN corrections[w]
  ELSE capitalizeWord(w)

SimplifyString(str) ==
  LET s1 == Flatten([i \in 1..Len(str) |-> LongVowels(str[i])])
      s2 == [i \in 1..Len(s1) |-> Emphatics(s1[i])]
      s3 == [i \in 1..Len(s2) |-> Stops(s2[i])]
      s4 == toLowerCase(Trim(CollapseWs([i \in 1..Len(s3) |-> HyphenToSpace(s3[i])])))
      ws == SplitSpace(s4)
  IN  JoinSpace([i \in 1..Len(ws) |-> CorrectWord(ws[i])])

scientificToPhonetic(x) ==
  IF ~Truthy(x) THEN [threw |-> FALSE, v |-> <<>>]
  ELSE IF ~IsString(x) THEN [threw |-> TRUE, v |-> <<>>]
  ELSE [threw |-> FALSE, v |-> SimplifyString(x.v)]

(***************************************************************************)
(* Contextual corrector (index.js:137-174).                                *)
(***************************************************************************)
Article == <<"alef", "lam">>

\* out.replace(/^al[-\s]?/i, r)
ReplaceLeadingAl(out, r) ==
  IF Len(out) >= 2 /\ LowerChar(out[1]) = "a" /\ LowerChar(out[2]) = "l"
  THEN LET n == IF Len(out) >= 3 /\ (out[3] = "-" \/ IsWs(out[3])) THEN 3 ELSE 2
       IN  r \o SubSeq(out, n + 1, Len(out))
  ELSE out

\* Assimilate reading the letter at index 1, the lam of the article, where
\* the code reads index 2
AssimilateIndexOne(raw, out) ==
  IF StartsWith(raw, Article) /\ Len(raw) >= 2
  THEN LET secondLetter == raw[2]
           prefix == <<"A">> \o Mapped(secondLetter)
       IN  IF secondLetter \in sunLetters
           THEN ReplaceLeadingAl(ReplaceLeadingAl(out, prefix \o <<"-">>),
                                 prefix \o <<"-">>)
           ELSE out
  ELSE out

\* lines 142-150
Assimilate(raw, out) ==
  IF StartsWith(raw, Article) /\ Len(raw) >= 2
  THEN LET secondLetter == IF Len(raw) >= 3 THEN raw[3] ELSE raw[2]
           prefix == <<"A">> \o Mapped(secondLetter)
       IN  IF secondLetter \in sunLetters
           THEN ReplaceLeadingAl(ReplaceLeadingAl(out, prefix \o <<"-">>),
                                 prefix \o <<"-">>)
           ELSE out
  ELSE out

\* Geminate replacing the occurrence by the mapping itself, not the doubled one
RECURSIVE GeminateNotDoubled(_, _, _)
GeminateNotDoubled(raw, i, out) ==
  IF i > Len(raw) THEN out
  ELSE LET mapped == Mapped(raw[i])
           hit == i + 1 <= Len(raw) /\ raw[i + 1] = "shadda" /\ mapped # <<>>
       IN  GeminateNotDoubled(raw, i + 1,
                              IF hit THEN ReplaceFirstCI(out, mapped, mapped) ELSE out)

\* lines 152-165: the loop over raw from index i (1-based) on
RECURSIVE Geminate(_, _, _)
Geminate(raw, i, out) ==
  IF i > Len(raw) THEN out
  ELSE LET mapped == Mapped(raw[i])
           hit == i + 1 <= Len(raw) /\ raw[i + 1] = "shadda" /\ mapped # <<>>
       IN  Geminate(raw, i + 1,
                    IF hit THEN ReplaceFirstCI(out, mapped, mapped \o mapped) ELSE out)

\* TaaMarbuta with the final vowel never appended
TaaMarbutaOmitted(raw, out) == out

\* lines 167-169
TaaMarbuta(raw, out) ==
  IF EndsWith(raw, <<"teh_marbuta">>) /\ ~(out # <<>> /\ out[Len(out)] \in {"a", "A"})
  THEN out \o <<"a">>
  ELSE out

applyContextualRules(originalArabic, phoneticLatin) ==
  IF originalArabic = <<>> \/ phoneticLatin = <<>> THEN phoneticLatin
  ELSE LET raw == Trim(originalArabic)
           o1 == Assimilate(raw, phoneticLatin)
           o2 == IF \E i \in 1..Len(raw) : raw[i] = "shadda"
                 THEN Geminate(raw, 1, o1) ELSE o1
           o3 == TaaMarbuta(raw, o2)
           o4 == Trim(CollapseHyphens(CollapseWs(o3)))
       IN  JoinSpace(CapitalizeAll(SplitSpace(o4)))

(***************************************************************************)
(* Pipeline driver (index.js:176-196).                                     *)
(***************************************************************************)
NomVide == <<"N", "o", "m", " ", "v", "i", "d", "e">>

\* typeof transliterateLib === "function" (line 182)
LibIsFunction == transliterateLib.kind = "function"

\* lines 181-191: the value of scientific.  The resource is called with the
\* options first; a falsy or non-string answer, or an exception, leads to the
\* call without options, whose exception leaves the empty string.  A call that
\* raises is repeated by the handler of line 187 with the same arguments and
\* raises again.
Romanize(strippedText) ==
  IF LibIsFunction
  THEN LET first == transliterateLib.withOptions
           second == transliterateLib.plain
           retry == IF second = LibThrows THEN JsStr(<<>>) ELSE second
       IN  IF first = LibThrows THEN retry
           ELSE IF ~Truthy(first) \/ ~IsString(first) THEN retry
           ELSE first
  ELSE JsStr(fallbackTransliterate(strippedText))

\* lines 193-195
Finish(keep, sci) ==
  LET phonetic == scientificToPhonetic(sci)
  IN  IF phonetic.threw THEN [threw |-> TRUE, v |-> <<>>]
      ELSE [threw |-> FALSE, v |-> applyContextualRules(keep, phonetic.v)]

smartTransliterate(text) ==
  IF text = <<>> THEN [threw |-> FALSE, v |-> NomVide]
  ELSE LET keep == normalizeArabicKeepShadda(text)
       IN  Finish(keep, Romanize(stripDiacritics(keep)))

(***************************************************************************)
(* The external resource and the inputs explored.                          *)
(***************************************************************************)
LibAbsent == [kind |-> "null", withOptions |-> LibThrows, plain |-> LibThrows]
\* the package exports something that is no function
LibNotCallable == [kind |-> "object", withOptions |-> LibThrows, plain |-> LibThrows]

AlShams == <<"a", "l", "-", "s", "h", "a", "m", "s">>
FatimaScholarly == <<"f", "amac", "tdot", "i", "m", "a">>

\* what one call of the resource may do
LibOutcomes ==
  {LibThrows, JsObject, JsUndefined, JsStr(<<>>), JsStr(<<"-">>), JsStr(AlShams),
   JsStr(FatimaScholarly)}

\* a non-empty string answered to the call with options is used as it is;
\* the call without options is made, and its outcome matters, only otherwise
UsedAsIs(a) == IsString(a) /\ Truthy(a)

LibModes ==
  {LibAbsent, LibNotCallable}
    \cup {[kind |-> "function", withOptions |-> a, plain |-> b] :
            a \in {x \in LibOutcomes : ~UsedAsIs(x)}, b \in LibOutcomes}
    \cup {[kind |-> "function", withOptions |-> a, plain |-> LibThrows] :
            a \in {x \in LibOutcomes : UsedAsIs(x)}}

SeqUpTo(A, n) == UNION {[1..k -> A] : k \in 0..n}

CoreAlphabet == {"alef", "teh_marbuta", "shadda", " ", "tab", "rlm", "x"}
CoreTexts == SeqUpTo(CoreAlphabet, MaxCoreLen)

BodyAlphabet == {"alef", "sheen", "heh", "teh_marbuta", "shadda", "fatha", " "}
Prefixes ==
  {<<>>} \cup {<<k>> : k \in TableKeys} \cup {Article \o <<k>> : k \in TableKeys}
FallbackTexts == {p \o b : p \in Prefixes, b \in SeqUpTo(BodyAlphabet, MaxBodyLen)}

Requests == 1..NumRequests

HandlerTexts ==
  {<<>>, <<" ">>, <<"alef", "lam", "sheen", "shadda">>,
   <<" ", "feh", "teh_marbuta">>}
HandlerLibs ==
  {LibAbsent, [kind |-> "function", withOptions |-> JsObject, plain |-> JsObject]}

\* the facts isValidSlackRequest reads: the secret is configured, both headers
\* are present, the timestamp is within five minutes, the HMAC matches
SignatureCases ==
  [secret : BOOLEAN, headers : BOOLEAN, fresh : BOOLEAN, hmacMatches : BOOLEAN]

NoBody == [text |-> <<>>, responseUrl |-> FALSE, channelId |-> FALSE]
NoResult == [threw |-> FALSE, v |-> <<>>]

(***************************************************************************)
(* One invocation of smartTransliterate, stage by stage (index.js:176-196).*)
(***************************************************************************)
HandlerIdle ==
  /\ pc = [r \in Requests |-> "idle"]
  /\ body = [r \in Requests |-> NoBody]
  /\ ack = [r \in Requests |-> FALSE]
  /\ urlLog = [r \in Requests |-> <<>>]
  /\ lastErr = [r \in Requests |-> FALSE]
  /\ chatLog = [r \in Requests |-> <<>>]
  /\ translit = [r \in Requests |-> NoResult]

TablesBuilt ==
  /\ arabicToLatin = ArabicToLatinTable
  /\ sunLetters = SunLetterSet

InitCore ==
  /\ TablesBuilt
  /\ botToken = FALSE
  /\ HandlerIdle
  /\ \/ transliterateLib \in LibModes /\ arabicText \in CoreTexts
     \/ transliterateLib = LibAbsent /\ arabicText \in FallbackTexts
  /\ cpc = "start"
  /\ rawKeep = <<>>
  /\ stripped = <<>>
  /\ scientific = JsStr(<<>>)
  /\ returned = <<>>

\* line 177
CoreEmptyInput ==
  /\ cpc = "start"
  /\ arabicText = <<>>
  /\ returned' = NomVide
  /\ cpc' = "done"
  /\ UNCHANGED <<tableVars, transliterateLib, botToken, arabicText, rawKeep, stripped,
                 scientific, handlerVars>>

\* lines 178-179
CoreNormalize ==
  /\ cpc = "start"
  /\ arabicText # <<>>
  /\ rawKeep' = normalizeArabicKeepShadda(arabicText)
  /\ stripped' = stripDiacritics(normalizeArabicKeepShadda(arabicText))
  /\ cpc' = "normalized"
  /\ UNCHANGED <<tableVars, transliterateLib, botToken, arabicText, scientific,
                 returned, handlerVars>>

\* lines 181-191
CoreRomanize ==
  /\ cpc = "normalized"
  /\ scientific' = Romanize(stripped)
  /\ cpc' = "romanized"
  /\ UNCHANGED <<tableVars, transliterateLib, botToken, arabicText, rawKeep, stripped,
                 returned, handlerVars>>

\* lines 193-195: the result, or the TypeError of scientificToPhonetic
CoreFinish ==
  /\ cpc = "romanized"
  /\ LET res == Finish(rawKeep, scientific)
     IN  /\ returned' = res.v
         /\ cpc' = IF res.threw THEN "threw" ELSE "done"
  /\ UNCHANGED <<tableVars, transliterateLib, botToken, arabicText, rawKeep, stripped,
                 scientific, handlerVars>>

NextCore == CoreEmptyInput \/ CoreNormalize \/ CoreRomanize \/ CoreFinish

SpecCore == InitCore /\ [][NextCore]_vars

(***************************************************************************)
(* One call of scientificToPhonetic on its own (index.js:117-135), on      *)
(* arguments that include capital marked letters and the names of the      *)
(* correction dictionary.                                                  *)
(***************************************************************************)
SciAlphabet == {"a", "A", "amac", "AMAC", "hdot", "SDOT", "-", " "}

SciNames ==
  {Muhammad, <<"m", "h", "m", "d">>, <<"M", "O", "H", "A", "M", "E", "D">>,
   <<"b", "i", "n">>, <<"F", "amac", "tdot", "i", "m", "a">>,
   <<"a", "l", "i", "-", "HDOT", "a", "s", "a", "n">>}

SciArguments ==
  {JsUndefined, JsObject} \cup
  {JsStr(t) : t \in SeqUpTo(SciAlphabet, MaxSciLen) \cup SciNames}

InitSimplify ==
  /\ TablesBuilt
  /\ botToken = FALSE
  /\ HandlerIdle
  /\ transliterateLib = LibAbsent
  /\ arabicText = <<>>
  /\ rawKeep = <<>>
  /\ stripped = <<>>
  /\ scientific \in SciArguments
  /\ cpc = "called"
  /\ returned = <<>>

\* line 118
SimplifyFalsy ==
  /\ cpc = "called"
  /\ ~Truthy(scientific)
  /\ returned' = scientificToPhonetic(scientific).v
  /\ cpc' = "simplified"
  /\ UNCHANGED <<tableVars, transliterateLib, botToken, arabicText, rawKeep, stripped,
                 scientific, handlerVars>>

\* line 120 on a value without replace: TypeError
SimplifyThrows ==
  /\ cpc = "called"
  /\ Truthy(scientific)
  /\ scientificToPhonetic(scientific).threw
  /\ cpc' = "threw"
  /\ UNCHANGED <<tableVars, transliterateLib, botToken, arabicText, rawKeep, stripped,
                 scientific, returned, handlerVars>>

\* lines 119-134
SimplifyReturns ==
  /\ cpc = "called"
  /\ Truthy(scientific)
  /\ ~scientificToPhonetic(scientific).threw
  /\ returned' = scientificToPhonetic(scientific).v
  /\ cpc' = "simplified"
  /\ UNCHANGED <<tableVars, transliterateLib, botToken, arabicText, rawKeep, stripped,
                 scientific, handlerVars>>

NextSimplify == SimplifyFalsy \/ SimplifyThrows \/ SimplifyReturns

SpecSimplify == InitSimplify /\ [][NextSimplify]_vars

(***************************************************************************)
(* The /phon handler (index.js:199-303).                                   *)
(***************************************************************************)
\* index.js:43-65
isValidSlackRequest(q) ==
  IF ~q.secret THEN TRUE
  ELSE IF ~q.headers THEN FALSE
  ELSE IF ~q.fresh THEN FALSE
  ELSE q.hmacMatches

\* the request as the handler may find it: whether some request passes line
\* 205, fails it, or has a text that trims to nothing (line 210)
SomeSignaturePasses == (\E q \in SignatureCases : isValidSlackRequest(q)) = TRUE
SomeSignatureFails == (\E q \in SignatureCases : ~isValidSlackRequest(q)) = TRUE
SomeTextIsBlank == (\E t \in HandlerTexts : Trim(t) = <<>>) = TRUE

\* index.js:238
maxAttempts == 2

Init ==
  /\ TablesBuilt
  /\ botToken \in BOOLEAN
  /\ transliterateLib \in HandlerLibs
  /\ HandlerIdle
  /\ arabicText = <<>>
  /\ cpc = "idle"
  /\ rawKeep = <<>>
  /\ stripped = <<>>
  /\ scientific = JsStr(<<>>)
  /\ returned = <<>>

\* lines 205-208: 400 on an invalid signature
Reject(r) ==
  /\ pc[r] = "idle"
  /\ SomeSignatureFails
  /\ pc' = [pc EXCEPT ![r] = "rejected"]
  /\ UNCHANGED <<tableVars, transliterateLib, botToken, coreVars, body, ack, urlLog,
                 lastErr, chatLog, translit>>

\* lines 210-219: the usage reply when the trimmed text is empty
Usage(r) ==
  /\ pc[r] = "idle"
  /\ SomeSignaturePasses
  /\ SomeTextIsBlank
  /\ pc' = [pc EXCEPT ![r] = "usage"]
  /\ UNCHANGED <<tableVars, transliterateLib, botToken, coreVars, body, ack, urlLog,
                 lastErr, chatLog, translit>>

\* lines 210-226: the immediate ACK of an accepted request.  res.json is given
\* a literal and nothing was written to res before, so it does not raise.
Ack(r) ==
  /\ pc[r] = "idle"
  /\ SomeSignaturePasses
  /\ \E t \in HandlerTexts, url \in BOOLEAN, chan \in BOOLEAN :
       /\ Trim(t) # <<>>
       /\ body' = [body EXCEPT ![r] =
                     [text |-> Trim(t), responseUrl |-> url, channelId |-> chan]]
  /\ ack' = [ack EXCEPT ![r] = TRUE]
  /\ pc' = [pc EXCEPT ![r] = "acked"]
  /\ UNCHANGED <<tableVars, transliterateLib, botToken, coreVars, urlLog, lastErr,
                 chatLog, translit>>

\* where the async block goes once the retry loop is over or was not entered
\* (lines 258-260 and 280-281)
AfterUrl(r) == IF botToken /\ body[r].channelId THEN "chat" ELSE "done"

\* Process with the gemination rule storing the doubled mapping back into the
\* shared table
ProcessWritesTable(r) ==
  /\ pc[r] = "acked"
  /\ LET res == smartTransliterate(body[r].text)
         raw == body[r].text
         marked == {raw[i] : i \in {j \in 1..(Len(raw) - 1) : raw[j + 1] = "shadda"}}
     IN  /\ translit' = [translit EXCEPT ![r] = res]
         /\ arabicToLatin' = [k \in DOMAIN arabicToLatin |->
                                IF k \in marked THEN arabicToLatin[k] \o arabicToLatin[k]
                                ELSE arabicToLatin[k]]
         /\ pc' = [pc EXCEPT ![r] =
                     IF res.threw THEN "failed"
                     ELSE IF body[r].responseUrl THEN "posting"
                     ELSE IF botToken /\ body[r].channelId THEN "chat" ELSE "done"]
  /\ UNCHANGED <<sunLetters, transliterateLib, botToken, coreVars, body, ack, urlLog,
                 lastErr, chatLog>>

\* lines 229-237, 280-297, 299-301: the async block up to its first await
Process(r) ==
  /\ pc[r] = "acked"
  /\ LET res == smartTransliterate(body[r].text)
     IN  /\ translit' = [translit EXCEPT ![r] = res]
         /\ pc' = [pc EXCEPT ![r] =
                     IF res.threw THEN "failed"
                     ELSE IF body[r].responseUrl THEN "posting"
                     ELSE AfterUrl(r)]
  /\ UNCHANGED <<tableVars, transliterateLib, botToken, coreVars, body, ack, urlLog,
                 lastErr, chatLog>>

\* PostOk without the break of line 249: the loop goes on after a success
PostOkNoBreak(r) ==
  /\ pc[r] = "posting"
  /\ urlLog' = [urlLog EXCEPT ![r] = Append(@, "ok")]
  /\ lastErr' = [lastErr EXCEPT ![r] = FALSE]
  /\ pc' = [pc EXCEPT ![r] = "backoff"]
  /\ UNCHANGED <<tableVars, transliterateLib, botToken, coreVars, body, ack, chatLog,
                 translit>>

\* lines 243-249: the POST to response_url succeeds
PostOk(r) ==
  /\ pc[r] = "posting"
  /\ urlLog' = [urlLog EXCEPT ![r] = Append(@, "ok")]
  /\ lastErr' = [lastErr EXCEPT ![r] = FALSE]
  /\ pc' = [pc EXCEPT ![r] = "done"]
  /\ UNCHANGED <<tableVars, transliterateLib, botToken, coreVars, body, ack, chatLog,
                 translit>>

\* lines 250-254: the POST fails or times out
PostFail(r) ==
  /\ pc[r] = "posting"
  /\ urlLog' = [urlLog EXCEPT ![r] = Append(@, "fail")]
  /\ lastErr' = [lastErr EXCEPT ![r] = TRUE]
  /\ pc' = [pc EXCEPT ![r] = "backoff"]
  /\ UNCHANGED <<tableVars, transliterateLib, botToken, coreVars, body, ack, chatLog,
                 translit>>

\* lines 240, 254-260: the back-off timer fires; the next attempt, or the end
\* of the loop with lastErr set
BackoffElapsed(r) ==
  /\ pc[r] = "backoff"
  /\ pc' = [pc EXCEPT ![r] =
              IF Len(urlLog[r]) + 1 <= maxAttempts THEN "posting"
              ELSE IF lastErr[r] THEN AfterUrl(r)
              ELSE "done"]
  /\ UNCHANGED <<tableVars, transliterateLib, botToken, coreVars, body, ack, urlLog,
                 lastErr, chatLog, translit>>

\* lines 261-274 and 282-294: chat.postMessage, delivered or not
ChatOk(r) ==
  /\ pc[r] = "chat"
  /\ chatLog' = [chatLog EXCEPT ![r] = Append(@, "ok")]
  /\ pc' = [pc EXCEPT ![r] = "done"]
  /\ UNCHANGED <<tableVars, transliterateLib, botToken, coreVars, body, ack, urlLog,
                 lastErr, translit>>

ChatFail(r) ==
  /\ pc[r] = "chat"
  /\ chatLog' = [chatLog EXCEPT ![r] = Append(@, "fail")]
  /\ pc' = [pc EXCEPT ![r] = "done"]
  /\ UNCHANGED <<tableVars, transliterateLib, botToken, coreVars, body, ack, urlLog,
                 lastErr, translit>>

Next ==
  \E r \in Requests :
    \/ Reject(r)
    \/ Usage(r)
    \/ Ack(r)
    \/ Process(r)
    \/ PostOk(r)
    \/ PostFail(r)
    \/ BackoffElapsed(r)
    \/ ChatOk(r)
    \/ ChatFail(r)

Spec == Init /\ [][Next]_vars

(***************************************************************************)
(* Properties of the pipeline, under SpecCore.                             *)
(***************************************************************************)
CoreOver == cpc \in {"done", "threw"}
Fallback == ~LibIsFunction
Bad == {LibThrows, JsStr(<<>>), JsObject, JsUndefined}

\* C1: smartTransliterate returns a string and never raises, whatever the
\* external resource does (absent, raising, answering "" or a non-string).
C1_NeverThrows == cpc # "threw"

\* C2: when the resource is present but every call of it raises, answers the
\* empty string or answers a non-string, the scientific string is
\* fallbackTransliterate(stripped) and the result is the one obtained with the
\* resource absent.
C2_FallsThroughToFallback ==
  (/\ LibIsFunction
   /\ transliterateLib.withOptions \in Bad
   /\ transliterateLib.plain \in Bad
   /\ arabicText # <<>>
   /\ cpc \in {"romanized", "done", "threw"})
    => /\ scientific = JsStr(fallbackTransliterate(stripped))
       /\ CoreOver =>
            /\ cpc = "done"
            /\ returned = Finish(rawKeep, JsStr(fallbackTransliterate(stripped))).v

\* the normalized text is the article followed by a sun letter, romanized by
\* the letter table
SunArticleInput ==
  /\ cpc = "done"
  /\ Fallback
  /\ Len(rawKeep) >= 3
  /\ StartsWith(rawKeep, Article)
  /\ rawKeep[3] \in SunLetterSet

AssimilatedPrefix == <<"A">> \o ArabicToLatinTable[rawKeep[3]] \o <<"-">>
HasShadda(s) == \E i \in 1..Len(s) : s[i] = "shadda"

\* C3 as stated: with the fallback romanizer, a normalized text that begins
\* with the article and a sun letter, whatever follows (shadda included),
\* gives an output that begins with "A" + the letter's mapping + "-".
C3_SunPrefixAlways == SunArticleInput => StartsWith(returned, AssimilatedPrefix)

\* C3 amended: the same, for every such text that holds no shadda mark.
C3_SunPrefixWithoutShadda ==
  (SunArticleInput /\ ~HasShadda(rawKeep)) => StartsWith(returned, AssimilatedPrefix)

C3_Witness ==
  /\ SunArticleInput
  /\ ~HasShadda(rawKeep)
  /\ rawKeep[3] = "sheen"
  /\ Len(rawKeep) >= 5
  /\ rawKeep[4] = "fatha"
  /\ StartsWith(returned, <<"A", "s", "h", "-", "s", "h">>)

\* C4: with the fallback romanizer, a normalized text that begins with the
\* article followed by a letter that is not a sun letter gives an output
\* that starts with "Al-" or "Al ".
C4_MoonKeepsAl ==
  (/\ cpc = "done"
   /\ Fallback
   /\ Len(rawKeep) >= 3
   /\ StartsWith(rawKeep, Article)
   /\ rawKeep[3] \in TableKeys \ SunLetterSet)
    => /\ Len(returned) >= 3
       /\ SubSeq(returned, 1, 2) = <<"A", "l">>
       /\ returned[3] \in {"-", " "}

\* every call made to the resource answers a string
LibAnswersStrings ==
  /\ IsString(transliterateLib.withOptions)
  /\ UsedAsIs(transliterateLib.withOptions) \/ IsString(transliterateLib.plain)

TaaMarbutaInput ==
  /\ cpc = "done"
  /\ EndsWith(rawKeep, <<"teh_marbuta">>)
  /\ Fallback \/ LibAnswersStrings

EndsInA(s) == s # <<>> /\ s[Len(s)] \in {"a", "A"}

\* C5 as stated: a normalized text ending with teh marbuta gives an output
\* ending with "a" or "A", for the letter table and for a resource answering
\* any string, the empty one included.
C5_EndsInAAlways == TaaMarbutaInput => EndsInA(returned)

\* C5 amended: the same, whenever the phonetic candidate (the simplified
\* romanization) is not the empty string.
C5_EndsInAWhenCandidate ==
  (TaaMarbutaInput /\ scientificToPhonetic(scientific).v # <<>>) => EndsInA(returned)

C5_Witness ==
  /\ TaaMarbutaInput
  /\ scientific = JsStr(AlShams)
  /\ returned = <<"A", "l", " ", "S", "h", "a", "m", "s", "a">>

\* positions of s holding a letter of the table immediately followed by shadda
Geminated(s) == {i \in 1..(Len(s) - 1) : s[i] \in TableKeys /\ s[i + 1] = "shadda"}
Doubled(out, k) ==
  ContainsCI(out, ArabicToLatinTable[k] \o ArabicToLatinTable[k])

\* C6 as stated: with the fallback romanizer, every letter of the table
\* (variants included) immediately followed by shadda in the input has its
\* mapping twice in a row in the output.
C6_EveryGeminatedDoubled ==
  (cpc = "done" /\ Fallback)
    => \A i \in Geminated(arabicText) : Doubled(returned, arabicText[i])

\* C6 amended: the last letter of the normalized text that is immediately
\* followed by shadda, when it is not alef maksura, has its mapping twice in a
\* row in the output.
C6_LastGeminatedDoubled ==
  (cpc = "done" /\ Fallback /\ Geminated(rawKeep) # {})
    => LET k == rawKeep[Max(Geminated(rawKeep))]
       IN  k # "alef_maksura" => Doubled(returned, k)

C6_Witness ==
  /\ cpc = "done"
  /\ Fallback
  /\ rawKeep = <<"sheen", "shadda", "heh", "shadda">>
  /\ returned = <<"S", "h", "h", "s", "h", "h">>

\* the input is empty, normalizes to nothing, or holds no character the
\* letter table maps
Unprocessable ==
  \/ arabicText = <<>>
  \/ normalizeArabicKeepShadda(arabicText) = <<>>
  \/ \A i \in 1..Len(arabicText) : FoldLetter(arabicText[i]) \notin TableKeys

\* C8: an empty or unprocessable input does not raise and gives the sentinel
\* returned for "".
C8_UnprocessableGivesSentinel ==
  (CoreOver /\ Fallback /\ Unprocessable) => (cpc = "done" /\ returned = NomVide)

\* C10: normalizeArabicKeepShadda is idempotent and total; its result has no
\* right-to-left mark, no leading or trailing whitespace and no two
\* whitespace characters in a row; empty or whitespace-only input gives "".
C10_NormalizeIdempotent ==
  LET n == normalizeArabicKeepShadda(arabicText)
  IN  /\ normalizeArabicKeepShadda(n) = n
      /\ \A i \in 1..Len(n) : n[i] # "rlm"
      /\ n # <<>> => ~IsWs(n[1]) /\ ~IsWs(n[Len(n)])
      /\ \A i \in 1..(Len(n) - 1) : ~(IsWs(n[i]) /\ IsWs(n[i + 1]))
      /\ (\A i \in 1..Len(arabicText) : IsWs(arabicText[i])) => n = <<>>
      /\ cpc \notin {"start", "idle"} /\ arabicText # <<>> => rawKeep = n

C10_Witness ==
  /\ cpc = "normalized"
  /\ arabicText = <<"rlm", "tab", "x">>
  /\ rawKeep = <<"x">>

(***************************************************************************)
(* Properties of scientificToPhonetic, under SpecSimplify.                 *)
(***************************************************************************)
MarkedLetters ==
  {"amac", "imac", "umac", "hdot", "sdot", "tdot", "ddot", "zdot",
   "AMAC", "IMAC", "UMAC", "HDOT", "SDOT", "TDOT", "DDOT", "ZDOT"}

\* the order of steps the claim states: lowercase, then the replacements
LowercaseFirst(str) ==
  LET s0 == toLowerCase(str)
      s1 == Flatten([i \in 1..Len(s0) |-> LongVowels(s0[i])])
      s2 == [i \in 1..Len(s1) |-> Emphatics(s1[i])]
      s3 == [i \in 1..Len(s2) |-> Stops(s2[i])]
      s4 == Trim(CollapseWs([i \in 1..Len(s3) |-> HyphenToSpace(s3[i])]))
      ws == SplitSpace(s4)
  IN  JoinSpace([i \in 1..Len(ws) |-> CorrectWord(ws[i])])

\* C11: for every string argument, capital marked letters included, the
\* result of scientificToPhonetic equals that of the lowercase-first order
\* of steps, contains no marked letter in either case, and is left unchanged
\* by a second application of scientificToPhonetic.
C11_LowercaseFirst ==
  (cpc = "simplified" /\ IsString(scientific)) =>
    /\ returned = LowercaseFirst(scientific.v)
    /\ \A i \in 1..Len(returned) : returned[i] \notin MarkedLetters
    /\ scientificToPhonetic(JsStr(returned)) = [threw |-> FALSE, v |-> returned]

(***************************************************************************)
(* Properties of the handler, under Spec.                                  *)
(***************************************************************************)
\* C7: for an accepted request with a response_url, the ACK precedes every
\* delivery attempt; at most two POSTs go to response_url and none after the
\* first success; chat.postMessage is attempted only after both POSTs failed
\* and only with SLACK_BOT_TOKEN and channel_id; the result is never delivered
\* both by a successful POST and by chat.postMessage.
C7_DeliveryOrder ==
  \A r \in Requests :
    /\ (pc[r] \in {"posting", "backoff", "chat"} \/ urlLog[r] # <<>> \/ chatLog[r] # <<>>)
         => ack[r]
    /\ Len(urlLog[r]) <= maxAttempts
    /\ \A i \in 1..(Len(urlLog[r]) - 1) : urlLog[r][i] = "fail"
    /\ Len(chatLog[r]) <= 1
    /\ (body[r].responseUrl /\ (pc[r] = "chat" \/ chatLog[r] # <<>>))
         => /\ urlLog[r] = <<"fail", "fail">>
            /\ botToken
            /\ body[r].channelId
    /\ ~(\E i \in 1..Len(urlLog[r]) : urlLog[r][i] = "ok") \/ chatLog[r] = <<>>

C7_Witness ==
  \E r \in Requests :
    /\ body[r].responseUrl
    /\ urlLog[r] = <<"fail", "fail">>
    /\ chatLog[r] = <<"ok">>
    /\ pc[r] = "done"

\* C9: under any interleaving of the requests, a finished invocation holds
\* the value smartTransliterate gives for its text with the tables as built,
\* and the shared tables are never modified.
C9_Stateless ==
  /\ arabicToLatin = ArabicToLatinTable
  /\ sunLetters = SunLetterSet
  /\ \A r \in Requests :
       pc[r] \notin {"idle", "rejected", "usage", "acked"}
         => translit[r] = smartTransliterate(body[r].text)

C9_Witness ==
  \E r1, r2 \in Requests :
    /\ pc[r1] = "backoff"
    /\ pc[r2] = "posting"
    /\ Len(urlLog[r2]) = 1
    /\ ~translit[r1].threw
    /\ translit[r1].v = <<"A", "s", "h", "s", "h", "-", "s", "h">>
    /\ translit[r2].v = <<"F", "a">>

====
